---------------------------- MODULE Spec2Model ----------------------------
(***************************************************************************)
(* Model of litreading.preprocessor.LCSPreprocessor.                       *)
(*                                                                         *)
(* Specification Spec follows one record through compute_differ_lists and  *)
(* get_words_count: longest_common_subsequence splits the two texts on     *)
(* " ", runs difflib.Differ().compare on the token lists, trims the tail   *)
(* of the differ list, and get_words_count walks the trimmed list.         *)
(* Specification SpecSteps follows the step iterator of preprocess_data.   *)
(*                                                                         *)
(* Characters are one-character strings, a text or a token or a differ     *)
(* line is a sequence of characters.  Python indexes (from 0) are kept;    *)
(* At(s, i) reads s[i].                                                    *)
(***************************************************************************)
EXTENDS Integers, Sequences, FiniteSets, TLC

VARIABLES
    str_a,          \* longest_common_subsequence: the prompt text
    str_b,          \* longest_common_subsequence: the transcript text
    differ_full,    \* list(differ_list_) as built at line 234, before the trim
    differ_list,    \* the differ list (trimmed in place, then walked)
    to_be_removed,  \* first character of the last line of the untrimmed list
    pc,             \* position in the pipeline of one record
    i,              \* get_words_count: index of the next element of the loop
    skip_next,      \* get_words_count: elements still to skip
    correct,        \* get_words_count counters
    added,
    removed,
    errors_dict,    \* [prompt |-> list, transcript |-> list]
    visits,         \* what each iteration of the loop did, in order
    words_count,    \* the dict returned by get_words_count
    flags,          \* _preprocesssing_steps: the four flags
    steps,          \* self._steps
    steps_pos,      \* how far self.__steps_iter has advanced
    spc,            \* position inside preprocess_data / preprocess_text
    reported,       \* the step names handed out by next(self.__steps_iter)
    executed,       \* the steps run so far by the current call
    calls           \* number of preprocess_data calls started

lcs_vars == <<str_a, str_b, differ_full, differ_list, to_be_removed, pc, i,
              skip_next, correct, added, removed, errors_dict, visits,
              words_count>>
step_vars == <<flags, steps, steps_pos, spc, reported, executed, calls>>
vars == <<lcs_vars, step_vars>>

-----------------------------------------------------------------------------
(* Bounds of the model *)

\* total number of tokens of the two texts of one record
MaxTokens == 5
\* number of preprocess_data calls followed on one LCSPreprocessor
MaxCalls == 2

\* the words the texts are made of: the empty token (two spaces in a row, or
\* an empty text), a word unlike the others, and two words close enough for
\* Differ to pair them (ratio 0.8)
Tokens == { <<>>, <<"a">>, <<"a", "b">>, <<"a", "b", "c">> }

-----------------------------------------------------------------------------
(* Python sequences *)

At(s, k) == s[k + 1]

Min(x, y) == IF x < y THEN x ELSE y

\* " ".join(tokens)
RECURSIVE Join(_)
Join(ts) ==
    IF Len(ts) = 0 THEN <<>>
    ELSE IF Len(ts) = 1 THEN ts[1]
    ELSE ts[1] \o <<" ">> \o Join(Tail(ts))

\* str.split(" "): the pieces between the single spaces, empty pieces kept,
\* so the result always holds at least one token
RECURSIVE split_from(_, _)
split_from(s, cur) ==
    IF Len(s) = 0 THEN <<cur>>
    ELSE IF Head(s) = " " THEN <<cur>> \o split_from(Tail(s), <<>>)
    ELSE split_from(Tail(s), Append(cur, Head(s)))

split(s) == split_from(s, <<>>)

\* str.rstrip() of a line of hint tags
RECURSIVE rstrip(_)
rstrip(s) ==
    IF Len(s) > 0 /\ s[Len(s)] = " " THEN rstrip(SubSeq(s, 1, Len(s) - 1))
    ELSE s

\* str.replace(old, ""): every occurrence of old removed, left to right
RECURSIVE replace(_, _)
replace(s, old) ==
    IF Len(s) < Len(old) THEN s
    ELSE IF SubSeq(s, 1, Len(old)) = old
         THEN replace(SubSeq(s, Len(old) + 1, Len(s)), old)
    ELSE <<Head(s)>> \o replace(Tail(s), old)

\* c * k
RECURSIVE times(_, _)
times(c, k) == IF k <= 0 THEN <<>> ELSE <<c>> \o times(c, k - 1)

-----------------------------------------------------------------------------
(* difflib.SequenceMatcher (CPython 3.11) without junk: Differ() passes no  *)
(* junk filter, and autojunk needs a sequence of 200 elements.             *)

\* the blocks a[i:i+k] == b[j:j+k] inside a[alo:ahi] x b[blo:bhi]
blocks(a, b, alo, ahi, blo, bhi) ==
    { x \in (alo .. ahi - 1) \X (blo .. bhi - 1) \X (1 .. Min(ahi - alo, bhi - blo)) :
        /\ x[1] + x[3] <= ahi
        /\ x[2] + x[3] <= bhi
        /\ \A d \in 0 .. x[3] - 1 : At(a, x[1] + d) = At(b, x[2] + d) }

\* SequenceMatcher.find_longest_match: the longest block; of those the one
\* starting earliest in a; of those the one starting earliest in b
find_longest_match(a, b, alo, ahi, blo, bhi) ==
    LET S == blocks(a, b, alo, ahi, blo, bhi)
    IN  IF S = {} THEN <<alo, blo, 0>>
        ELSE CHOOSE x \in S : \A y \in S :
                \/ x[3] > y[3]
                \/ x[3] = y[3] /\ x[1] < y[1]
                \/ x[3] = y[3] /\ x[1] = y[1] /\ x[2] <= y[2]

\* SequenceMatcher.get_matching_blocks, before the closing sentinel: the
\* longest match, then the same to its left and to its right, sorted
RECURSIVE matching_blocks(_, _, _, _, _, _)
matching_blocks(a, b, alo, ahi, blo, bhi) ==
    LET x == find_longest_match(a, b, alo, ahi, blo, bhi)
        ii == x[1]
        jj == x[2]
        k == x[3]
    IN  IF k = 0 THEN <<>>
        ELSE (IF alo < ii /\ blo < jj
                THEN matching_blocks(a, b, alo, ii, blo, jj) ELSE <<>>)
             \o <<x>>
             \o (IF ii + k < ahi /\ jj + k < bhi
                   THEN matching_blocks(a, b, ii + k, ahi, jj + k, bhi) ELSE <<>>)

\* get_matching_blocks: adjacent blocks collapsed into one
RECURSIVE collapse(_, _)
collapse(cur, rest) ==
    IF Len(rest) = 0 THEN (IF cur[3] > 0 THEN <<cur>> ELSE <<>>)
    ELSE LET nx == Head(rest)
         IN  IF cur[1] + cur[3] = nx[1] /\ cur[2] + cur[3] = nx[2]
               THEN collapse(<<cur[1], cur[2], cur[3] + nx[3]>>, Tail(rest))
             ELSE (IF cur[3] > 0 THEN <<cur>> ELSE <<>>) \o collapse(nx, Tail(rest))

get_matching_blocks(a, b) ==
    collapse(<<0, 0, 0>>, matching_blocks(a, b, 0, Len(a), 0, Len(b)))
        \o << <<Len(a), Len(b), 0>> >>

\* SequenceMatcher.get_opcodes: <<tag, i1, i2, j1, j2>>
RECURSIVE opcodes_from(_, _, _)
opcodes_from(mb, ci, cj) ==
    IF Len(mb) = 0 THEN <<>>
    ELSE LET ai == mb[1][1]
             bj == mb[1][2]
             size == mb[1][3]
             tag == IF ci < ai /\ cj < bj THEN "replace"
                    ELSE IF ci < ai THEN "delete"
                    ELSE IF cj < bj THEN "insert"
                    ELSE ""
         IN  (IF tag # "" THEN << <<tag, ci, ai, cj, bj>> >> ELSE <<>>)
             \o (IF size > 0 THEN << <<"equal", ai, ai + size, bj, bj + size>> >> ELSE <<>>)
             \o opcodes_from(Tail(mb), ai + size, bj + size)

get_opcodes(a, b) == opcodes_from(get_matching_blocks(a, b), 0, 0)

\* SequenceMatcher.ratio as the fraction <<2 * matches, len(a) + len(b)>>
RECURSIVE sum_sizes(_)
sum_sizes(mb) == IF Len(mb) = 0 THEN 0 ELSE mb[1][3] + sum_sizes(Tail(mb))

ratio(a, b) ==
    IF Len(a) + Len(b) = 0 THEN <<1, 1>>
    ELSE <<2 * sum_sizes(get_matching_blocks(a, b)), Len(a) + Len(b)>>

\* p > q and p = q for fractions with positive denominators
frac_gt(p, q) == p[1] * q[2] > q[1] * p[2]
frac_eq(p, q) == p[1] * q[2] = q[1] * p[2]

-----------------------------------------------------------------------------
(* difflib.Differ: compare(a, b) yields the differ lines *)

\* the fixed starting point of best_ratio in Differ._fancy_replace
best_ratio_0 == <<74, 100>>

\* a variant of _dump that stops one element early: range(lo, hi - 1)
dump_short(tag, x, lo, hi) ==
    [k \in 1 .. (hi - lo - 1) |-> <<tag, " ">> \o At(x, lo + k - 1)]

\* Differ._dump: one line "<tag> <token>" for each of x[lo:hi]
dump(tag, x, lo, hi) ==
    [k \in 1 .. (hi - lo) |-> <<tag, " ">> \o At(x, lo + k - 1)]

\* a variant of _plain_replace with the two tags exchanged
plain_replace_swapped(a, alo, ahi, b, blo, bhi) ==
    IF bhi - blo < ahi - alo
      THEN dump("-", b, blo, bhi) \o dump("+", a, alo, ahi)
    ELSE dump("+", a, alo, ahi) \o dump("-", b, blo, bhi)

\* Differ._plain_replace: the shorter block is dumped first
plain_replace(a, alo, ahi, b, blo, bhi) ==
    IF bhi - blo < ahi - alo
      THEN dump("+", b, blo, bhi) \o dump("-", a, alo, ahi)
    ELSE dump("-", a, alo, ahi) \o dump("+", b, blo, bhi)

\* the hint tags _fancy_replace builds from the opcodes of the two tokens
RECURSIVE tags_of(_, _)
tags_of(ops, side) ==
    IF Len(ops) = 0 THEN <<>>
    ELSE LET op == Head(ops)
             la == op[3] - op[2]
             lb == op[5] - op[4]
             here == IF op[1] = "replace"
                       THEN (IF side = "a" THEN times("^", la) ELSE times("^", lb))
                     ELSE IF op[1] = "delete"
                       THEN (IF side = "a" THEN times("-", la) ELSE <<>>)
                     ELSE IF op[1] = "insert"
                       THEN (IF side = "a" THEN <<>> ELSE times("+", lb))
                     ELSE (IF side = "a" THEN times(" ", la) ELSE times(" ", lb))
         IN  here \o tags_of(Tail(ops), side)

\* Differ._qformat: "- a", then "? tags" when a has tags, "+ b", "? tags"
qformat(aline, bline, atags, btags) ==
    LET at == rstrip(atags)
        bt == rstrip(btags)
    IN  << <<"-", " ">> \o aline >>
        \o (IF Len(at) > 0 THEN << <<"?", " ">> \o at \o <<"\n">> >> ELSE <<>>)
        \o << <<"+", " ">> \o bline >>
        \o (IF Len(bt) > 0 THEN << <<"?", " ">> \o bt \o <<"\n">> >> ELSE <<>>)

\* the pairs (i, j) of the two blocks that _fancy_replace finds close: not
\* equal, and of a ratio above 0.74
close_pairs(a, alo, ahi, b, blo, bhi) ==
    { p \in (alo .. ahi - 1) \X (blo .. bhi - 1) :
        /\ At(a, p[1]) # At(b, p[2])
        /\ frac_gt(ratio(At(a, p[1]), At(b, p[2])), best_ratio_0) }

\* the pair its loops keep: j outside, i inside, replaced only by a
\* strictly better ratio
best_pair(a, b, S) ==
    CHOOSE p \in S : \A q \in S :
        LET rp == ratio(At(a, p[1]), At(b, p[2]))
            rq == ratio(At(a, q[1]), At(b, q[2]))
        IN  \/ frac_gt(rp, rq)
            \/ frac_eq(rp, rq) /\ p[2] < q[2]
            \/ frac_eq(rp, rq) /\ p[2] = q[2] /\ p[1] <= q[1]

\* the first identical pair in the same loop order (eqi, eqj)
eq_pairs(a, alo, ahi, b, blo, bhi) ==
    { p \in (alo .. ahi - 1) \X (blo .. bhi - 1) : At(a, p[1]) = At(b, p[2]) }

first_pair(S) ==
    CHOOSE p \in S : \A q \in S : p[2] < q[2] \/ (p[2] = q[2] /\ p[1] <= q[1])

\* the "-", "?", "+", "?" quad of a close pair, its hint tags built from the
\* opcodes of the two tokens
quad(aelt, belt, ops) == qformat(aelt, belt, tags_of(ops, "a"), tags_of(ops, "b"))

\* the lines _fancy_replace yields for the pair it synchronises on: a "  "
\* line for an identical pair, the quad for a close pair
pair_lines(aelt, belt, identical) ==
    IF identical THEN << <<" ", " ">> \o aelt >>
    ELSE quad(aelt, belt, get_opcodes(aelt, belt))

\* Differ._fancy_replace and Differ._fancy_helper
RECURSIVE fancy_replace(_, _, _, _, _, _)
RECURSIVE fancy_helper(_, _, _, _, _, _)
RECURSIVE fancy_split(_, _, _, _, _, _, _, _)

\* _fancy_helper: both blocks non-empty go to _fancy_replace, one empty
\* block is dumped
fancy_helper(a, alo, ahi, b, blo, bhi) ==
    IF alo < ahi
      THEN (IF blo < bhi THEN fancy_replace(a, alo, ahi, b, blo, bhi)
            ELSE dump("-", a, alo, ahi))
    ELSE IF blo < bhi THEN dump("+", b, blo, bhi)
    ELSE <<>>

\* the end of _fancy_replace: the lines before the synch pair, the pair,
\* the lines after it
fancy_split(a, alo, ahi, b, blo, bhi, best, identical) ==
    fancy_helper(a, alo, best[1], b, blo, best[2])
    \o pair_lines(At(a, best[1]), At(b, best[2]), identical)
    \o fancy_helper(a, best[1] + 1, ahi, b, best[2] + 1, bhi)

\* _fancy_replace: without a close pair or an identical pair the blocks are
\* replaced plainly; a close pair is preferred to an identical one
fancy_replace(a, alo, ahi, b, blo, bhi) ==
    LET close == close_pairs(a, alo, ahi, b, blo, bhi)
        same == eq_pairs(a, alo, ahi, b, blo, bhi)
    IN  IF close = {} /\ same = {} THEN plain_replace(a, alo, ahi, b, blo, bhi)
        ELSE IF close = {}
          THEN fancy_split(a, alo, ahi, b, blo, bhi, first_pair(same), TRUE)
        ELSE fancy_split(a, alo, ahi, b, blo, bhi, best_pair(a, b, close), FALSE)

\* Differ.compare: the lines of each opcode of the two token lists
RECURSIVE compare_ops(_, _, _)
compare_ops(a, b, ops) ==
    IF Len(ops) = 0 THEN <<>>
    ELSE LET op == Head(ops)
             g == IF op[1] = "replace"
                    THEN fancy_replace(a, op[2], op[3], b, op[4], op[5])
                  ELSE IF op[1] = "delete" THEN dump("-", a, op[2], op[3])
                  ELSE IF op[1] = "insert" THEN dump("+", b, op[4], op[5])
                  ELSE dump(" ", a, op[2], op[3])
         IN  g \o compare_ops(a, b, Tail(ops))

compare(a, b) == compare_ops(a, b, get_opcodes(a, b))

-----------------------------------------------------------------------------
(* LCSPreprocessor.longest_common_subsequence and get_words_count, for one *)
(* record of compute_numerical_features                                    *)

\* the token lists of length n
TokenLists(n) == [1 .. n -> Tokens]

\* word[0]
tag_of(word) == At(word, 0)

\* differ_list[-1]
last_of(list) == list[Len(list)]

\* a variant of the trim test that pops any trailing line that is not a
\* match, whatever its tag
trim_cond_any(list, tbr) == tag_of(last_of(list)) # " " /\ Len(list) >= 1

\* line 240, the test of the trim loop; it is only evaluated on a list that
\* is not empty (differ_list[-1] of an empty list raises IndexError)
trim_cond(list, tbr) == tag_of(last_of(list)) = tbr /\ Len(list) >= 1

\* variants of the guard: one position further, and no guard at all
boundary_next(idx, n) == idx < n - 1
boundary_none(idx, n) == idx < n

\* line 268, the guard under which a mistake is looked at
boundary(idx, n) == idx < n - 2

\* lines 273-275: j after the loop that steps over the "?" lines
RECURSIVE lookahead(_, _, _)
lookahead(list, idx, j) ==
    IF idx + j < Len(list) /\ tag_of(At(list, idx + j)) = "?"
      THEN lookahead(list, idx, j + 1)
    ELSE j

\* lines 280-285: the entries appended to the two lists of errors_dict for
\* the pair (word, other), as <<prompt entry, transcript entry>>
error_entries(word, other, plus_minus) ==
    IF plus_minus
      THEN <<replace(word, <<"+", " ">>), replace(other, <<"-", " ">>)>>
    ELSE <<replace(word, <<"-", " ">>), replace(other, <<"+", " ">>)>>

\* a variant of skip_next that forgets the "?" lines: skip_next = 1
skip_count_one(paired, j) == IF paired THEN 1 ELSE 0

\* line 279: skip_next = (plus_minus or minus_plus) * j
skip_count(paired, j) == IF paired THEN j ELSE 0

no_counts == [correct |-> 0, added |-> 0, removed |-> 0, replaced |-> 0]

LCSInit ==
    \* the texts of a record are the joins of at least one token each, since
    \* split(" ") never returns an empty list
    /\ \E la \in 1 .. MaxTokens - 1 : \E lb \in 1 .. MaxTokens - la :
         \E ta \in TokenLists(la), tb \in TokenLists(lb) :
             /\ str_a = Join(ta)
             /\ str_b = Join(tb)
    /\ differ_full = <<>>
    /\ differ_list = <<>>
    /\ to_be_removed = ""
    /\ pc = "lcs"
    /\ i = 0
    /\ skip_next = 0
    /\ correct = 0
    /\ added = 0
    /\ removed = 0
    /\ errors_dict = [prompt |-> <<>>, transcript |-> <<>>]
    /\ visits = <<>>
    /\ words_count = no_counts

\* lines 233-239: the differ list is built and its last line is looked at
Compare ==
    /\ pc = "lcs"
    /\ LET d == compare(split(str_a), split(str_b))
       IN  /\ differ_full' = d
           /\ differ_list' = d
           /\ IF Len(d) = 0
                THEN /\ pc' = "lcs_raised"
                     /\ UNCHANGED to_be_removed
              ELSE /\ to_be_removed' = tag_of(last_of(d))
                   /\ pc' = IF tag_of(last_of(d)) # " " THEN "trim" ELSE "returned"
    /\ UNCHANGED <<step_vars, str_a, str_b, i, skip_next, correct, added, removed,
                   errors_dict, visits, words_count>>

\* lines 240-241: one test of the while loop, and the pop when it holds
TrimStep ==
    /\ pc = "trim"
    /\ IF Len(differ_list) = 0
         THEN pc' = "lcs_raised" /\ UNCHANGED differ_list
       ELSE IF trim_cond(differ_list, to_be_removed)
         THEN /\ differ_list' = SubSeq(differ_list, 1, Len(differ_list) - 1)
              /\ pc' = "trim"
       ELSE pc' = "returned" /\ UNCHANGED differ_list
    /\ UNCHANGED <<step_vars, str_a, str_b, differ_full, to_be_removed, i, skip_next,
                   correct, added, removed, errors_dict, visits, words_count>>

\* lines 176 and 256-261: get_words_count is called on the returned list
CallCount ==
    /\ pc = "returned"
    /\ pc' = "loop"
    /\ i' = 0
    /\ skip_next' = 0
    /\ correct' = 0
    /\ added' = 0
    /\ removed' = 0
    /\ errors_dict' = [prompt |-> <<>>, transcript |-> <<>>]
    /\ UNCHANGED <<step_vars, str_a, str_b, differ_full, differ_list, to_be_removed,
                   visits, words_count>>

\* what one iteration did: the index visited, whether it was skipped, the
\* index of the line it was paired with (-1: none)
Visit(idx, skipped, partner) ==
    [idx |-> idx, skipped |-> skipped, partner |-> partner,
     correct |-> correct' - correct, added |-> added' - added,
     removed |-> removed' - removed,
     replaced |-> Len(errors_dict'.prompt) - Len(errors_dict.prompt)]

\* lines 262-285: one iteration of the for loop
LoopStep ==
    /\ pc = "loop"
    /\ i < Len(differ_list)
    /\ LET n == Len(differ_list)
           word == At(differ_list, i)
           j == lookahead(differ_list, i, 1)
       IN  IF skip_next > 0
             THEN /\ skip_next' = skip_next - 1
                  /\ i' = i + 1
                  /\ UNCHANGED <<pc, correct, added, removed, errors_dict>>
                  /\ visits' = Append(visits, Visit(i, TRUE, -1))
           ELSE IF tag_of(word) = " "
             THEN /\ correct' = correct + 1
                  /\ i' = i + 1
                  /\ UNCHANGED <<pc, skip_next, added, removed, errors_dict>>
                  /\ visits' = Append(visits, Visit(i, FALSE, -1))
           ELSE IF boundary(i, n)
             THEN /\ added' = IF tag_of(word) = "+" THEN added + 1 ELSE added
                  /\ removed' = IF tag_of(word) = "-" THEN removed + 1 ELSE removed
                  /\ UNCHANGED correct
                  /\ IF i + j >= n
                       THEN \* differ_list[i + j] raises IndexError
                            /\ pc' = "count_raised"
                            /\ UNCHANGED <<i, skip_next, errors_dict, visits>>
                     ELSE LET other == At(differ_list, i + j)
                              plus_minus == tag_of(word) = "+" /\ tag_of(other) = "-"
                              minus_plus == tag_of(word) = "-" /\ tag_of(other) = "+"
                              e == error_entries(word, other, plus_minus)
                          IN  /\ skip_next' = skip_count(plus_minus \/ minus_plus, j)
                              /\ errors_dict' =
                                   IF plus_minus \/ minus_plus
                                     THEN [prompt |-> Append(errors_dict.prompt, e[1]),
                                           transcript |-> Append(errors_dict.transcript, e[2])]
                                   ELSE errors_dict
                              /\ i' = i + 1
                              /\ visits' = Append(visits,
                                     Visit(i, FALSE,
                                           IF plus_minus \/ minus_plus THEN i + j ELSE -1))
                              /\ UNCHANGED pc
           ELSE /\ i' = i + 1
                /\ UNCHANGED <<pc, skip_next, correct, added, removed, errors_dict>>
                /\ visits' = Append(visits, Visit(i, FALSE, -1))
    /\ UNCHANGED <<step_vars, str_a, str_b, differ_full, differ_list, to_be_removed,
                   words_count>>

\* lines 287-293: the counts are returned
Return ==
    /\ pc = "loop"
    /\ i = Len(differ_list)
    /\ words_count' = [correct |-> correct, added |-> added, removed |-> removed,
                       replaced |-> Len(errors_dict.prompt)]
    /\ pc' = "done"
    /\ UNCHANGED <<step_vars, str_a, str_b, differ_full, differ_list, to_be_removed, i,
                   skip_next, correct, added, removed, errors_dict, visits>>

LCSNext == Compare \/ TrimStep \/ CallCount \/ LoopStep \/ Return

-----------------------------------------------------------------------------
(* The step iterator of LCSPreprocessor: __init__, _init_steps,            *)
(* _compute_and_log_step_msg, preprocess_data and preprocess_text          *)

\* the keys of _preprocesssing_steps in the order __init__ inserts them
step_keys == <<"asr_string_recomposition", "to_lowercase",
               "remove_punctuation", "convert_num2words">>

\* the order in which preprocess_text tests the flags, then the step of
\* preprocess_data
text_order == <<"asr_string_recomposition", "to_lowercase",
                "convert_num2words", "remove_punctuation",
                "compute_numerical_features">>

\* _init_steps: the keys whose flag is set, in dict order, then the
\* features step
RECURSIVE enabled_keys(_, _)
enabled_keys(keys, fl) ==
    IF Len(keys) = 0 THEN <<>>
    ELSE (IF fl[Head(keys)] THEN <<Head(keys)>> ELSE <<>>)
         \o enabled_keys(Tail(keys), fl)

init_steps(fl) == Append(enabled_keys(step_keys, fl), "compute_numerical_features")

\* the defaults of __init__
default_flags ==
    [asr_string_recomposition |-> FALSE, to_lowercase |-> TRUE,
     remove_punctuation |-> TRUE, convert_num2words |-> TRUE]

\* a preprocessor as __init__ leaves it
Constructed(fl) ==
    /\ flags = fl
    /\ steps = init_steps(fl)
    /\ steps_pos = 0
    /\ spc = "idle"
    /\ reported = <<>>
    /\ executed = <<>>
    /\ calls = 0

StepsInit == \E fl \in [{step_keys[k] : k \in 1 .. 4} -> BOOLEAN] : Constructed(fl)

\* the place after `at` in preprocess_text / preprocess_data
RECURSIVE after_in(_, _)
after_in(order, at) ==
    IF Len(order) = 0 THEN "idle"
    ELSE IF Head(order) = at
      THEN (IF Len(order) > 1 THEN order[2] ELSE "idle")
    ELSE after_in(Tail(order), at)

next_place(at) == after_in(text_order, at)

\* line 92: preprocess_data makes a fresh iterator over enumerate(_steps).
\* grade_mode keeps its default, False, so line 101 is not reached.
StartCall ==
    /\ spc = "idle"
    /\ calls < MaxCalls
    /\ calls' = calls + 1
    /\ steps_pos' = 0
    /\ reported' = <<>>
    /\ executed' = <<>>
    /\ spc' = text_order[1]
    /\ UNCHANGED <<flags, steps, lcs_vars>>

\* lines 140-154 and 107-108: one `if flag:` of preprocess_text, or the
\* features step of preprocess_data.  When the step runs, line 68 advances
\* the iterator (StopIteration when it is exhausted) and the step executes.
RunStep ==
    /\ spc \notin {"idle", "raised"}
    /\ IF spc = "compute_numerical_features" \/ flags[spc]
         THEN IF steps_pos >= Len(steps)
                THEN /\ spc' = "raised"
                     /\ UNCHANGED <<steps_pos, reported, executed>>
              ELSE /\ steps_pos' = steps_pos + 1
                   /\ reported' = Append(reported, steps[steps_pos + 1])
                   /\ executed' = Append(executed, spc)
                   /\ spc' = next_place(spc)
       ELSE /\ spc' = next_place(spc)
            /\ UNCHANGED <<steps_pos, reported, executed>>
    /\ UNCHANGED <<flags, steps, calls, lcs_vars>>

StepsNext == StartCall \/ RunStep

-----------------------------------------------------------------------------
(* The two specifications *)

\* the record pipeline is not running
LCSParked ==
    /\ str_a = <<>>
    /\ str_b = <<>>
    /\ differ_full = <<>>
    /\ differ_list = <<>>
    /\ to_be_removed = ""
    /\ pc = "idle"
    /\ i = 0
    /\ skip_next = 0
    /\ correct = 0
    /\ added = 0
    /\ removed = 0
    /\ errors_dict = [prompt |-> <<>>, transcript |-> <<>>]
    /\ visits = <<>>
    /\ words_count = no_counts

Init == LCSInit /\ Constructed(default_flags)

Next == LCSNext

Spec == Init /\ [][Next]_vars

InitSteps == StepsInit /\ LCSParked

NextSteps == StepsNext

SpecSteps == InitSteps /\ [][NextSteps]_vars

-----------------------------------------------------------------------------
(* What the claims are stated with *)

\* the token of a "- tok", "+ tok" or "  tok" line
token_of(line) == SubSeq(line, 3, Len(line))

\* the tokens of the lines of list whose tag is in tags, in order
RECURSIVE side(_, _)
side(list, tags) ==
    IF Len(list) = 0 THEN <<>>
    ELSE (IF tag_of(Head(list)) \in tags THEN <<token_of(Head(list))>> ELSE <<>>)
         \o side(Tail(list), tags)

ref_side(list) == side(list, {" ", "-"})
hyp_side(list) == side(list, {" ", "+"})

IsPrefix(s, t) == Len(s) <= Len(t) /\ s = SubSeq(t, 1, Len(s))

\* longest_common_subsequence has returned
Trimmed == pc \in {"returned", "loop", "done", "count_raised"}

\* get_words_count is running or has ended
Counting == pc \in {"loop", "done", "count_raised"}

NLines == Len(differ_list)

\* number of lines of list whose tag is in tags
RECURSIVE count_tags(_, _)
count_tags(list, tags) ==
    IF Len(list) = 0 THEN 0
    ELSE (IF tag_of(Head(list)) \in tags THEN 1 ELSE 0) + count_tags(Tail(list), tags)

\* the iterations that visited a line (did not skip it)
Visited == { k \in 1 .. Len(visits) : ~visits[k].skipped }

\* the iterations that recorded a replacement pair, in order
RECURSIVE pair_visits(_)
pair_visits(vs) ==
    IF Len(vs) = 0 THEN <<>>
    ELSE (IF Head(vs).partner >= 0 THEN <<Head(vs)>> ELSE <<>>) \o pair_visits(Tail(vs))

\* the Insert and Delete lines the loop visited at an index >= n - 2
Dropped ==
    { k \in Visited : /\ visits[k].idx >= NLines - 2
                      /\ tag_of(At(differ_list, visits[k].idx)) \in {"+", "-"} }

opposite(t, u) == (t = "+" /\ u = "-") \/ (t = "-" /\ u = "+")

AllNonEmpty(ts) == \A k \in 1 .. Len(ts) : Len(ts[k]) > 0

-----------------------------------------------------------------------------
(* The claims *)

\* C1: a visited Insert or Delete line at an index i < n - 2 whose next line
\* after the "?" lines has the opposite tag counts as one replacement and adds
\* nothing to added or removed; one that is not paired adds 1 to added
\* (Insert) or to removed (Delete) and nothing to replaced.
C1_PairCountsOnce ==
    Counting =>
      \A k \in Visited :
        LET e == visits[k]
            t == tag_of(At(differ_list, e.idx))
            nx == e.idx + lookahead(differ_list, e.idx, 1)
        IN  (t \in {"+", "-"} /\ e.idx < NLines - 2 /\ nx < NLines) =>
              IF opposite(t, tag_of(At(differ_list, nx)))
                THEN e.replaced = 1 /\ e.added = 0 /\ e.removed = 0
              ELSE /\ e.replaced = 0
                   /\ e.added = (IF t = "+" THEN 1 ELSE 0)
                   /\ e.removed = (IF t = "-" THEN 1 ELSE 0)

\* C2: in every recorded replacement pair the prompt entry is the token of
\* the Delete line of the pair and the transcript entry is the token of its
\* Insert line, whichever came first.
C2_ReferenceFirst ==
    Counting =>
      LET ps == pair_visits(visits)
      IN  \A k \in 1 .. Len(ps) :
            LET first == At(differ_list, ps[k].idx)
                second == At(differ_list, ps[k].partner)
                del == IF tag_of(first) = "-" THEN first ELSE second
                ins == IF tag_of(first) = "+" THEN first ELSE second
            IN  /\ k <= Len(errors_dict.prompt)
                /\ errors_dict.prompt[k] = token_of(del)
                /\ errors_dict.transcript[k] = token_of(ins)

\* the four counts as they stand
Sum == correct + added + removed + Len(errors_dict.prompt)

\* C3 as stated: the four counts are >= 0, their sum is at most the number
\* of lines, and it is smaller only when some line that is not a match was
\* visited at an index >= n - 2.
C3_SumBelowOnlyAtBoundary ==
    pc = "done" =>
      /\ words_count.correct >= 0 /\ words_count.added >= 0
      /\ words_count.removed >= 0 /\ words_count.replaced >= 0
      /\ Sum <= NLines
      /\ Sum < NLines =>
           \E k \in Visited : /\ visits[k].idx >= NLines - 2
                              /\ tag_of(At(differ_list, visits[k].idx)) # " "

\* C3 as amended: the four counts are >= 0 and their sum is the number of
\* lines less the "?" lines and less the Insert and Delete lines visited at
\* an index >= n - 2; so the sum is below the number of lines only when a
\* line was dropped at the boundary or the list holds a "?" line.
C3_SumExact ==
    pc = "done" =>
      /\ words_count.correct >= 0 /\ words_count.added >= 0
      /\ words_count.removed >= 0 /\ words_count.replaced >= 0
      /\ words_count.correct + words_count.added + words_count.removed
           + words_count.replaced
         = NLines - count_tags(differ_list, {"?"}) - Cardinality(Dropped)

\* a list with a "?" line between two paired lines and nothing dropped at
\* the boundary: the sum is below the number of lines
C3_Witness ==
    /\ pc = "done"
    /\ Dropped = {}
    /\ Sum < NLines
    /\ \E k \in Visited : visits[k].partner = visits[k].idx + 2

\* C4 as stated: an Insert or Delete line in one of the last two positions
\* adds to no count and is in no error pair.
C4_LastTwoNeverCount ==
    Counting =>
      \A k \in 1 .. Len(visits) :
        LET e == visits[k]
        IN  /\ (e.idx >= NLines - 2 /\ tag_of(At(differ_list, e.idx)) \in {"+", "-"})
                 => (e.correct = 0 /\ e.added = 0 /\ e.removed = 0 /\ e.replaced = 0)
            /\ e.partner < NLines - 2

\* C4 as amended: an Insert or Delete line that the loop visits (does not
\* skip) at an index >= n - 2 adds to no count and starts no error pair; a
\* line of the last two positions is in an error pair only as the second
\* line of a pair whose first line is at an index < n - 2.
C4_VisitedLastTwoNeverCount ==
    Counting =>
      \A k \in 1 .. Len(visits) :
        LET e == visits[k]
        IN  /\ (~e.skipped /\ e.idx >= NLines - 2
                  /\ tag_of(At(differ_list, e.idx)) \in {"+", "-"})
                 => (e.correct = 0 /\ e.added = 0 /\ e.removed = 0
                       /\ e.replaced = 0 /\ e.partner = -1)
            /\ e.partner >= 0 => e.idx < NLines - 2

\* an Insert line and a Delete line both visited in the last two positions
C4_Witness ==
    /\ pc = "done"
    /\ \E k \in Dropped : tag_of(At(differ_list, visits[k].idx)) = "+"
    /\ \E k \in Dropped : tag_of(At(differ_list, visits[k].idx)) = "-"

\* C5: when the two texts have the same tokens, correct is the number of
\* tokens, added, removed and replaced are 0 and no error pair is recorded.
C5_Identity ==
    (pc = "done" /\ split(str_a) = split(str_b)) =>
      /\ words_count = [correct |-> Len(split(str_a)), added |-> 0,
                        removed |-> 0, replaced |-> 0]
      /\ errors_dict = [prompt |-> <<>>, transcript |-> <<>>]

\* two identical texts of two different tokens, counted
C5_Witness ==
    /\ pc = "done"
    /\ str_a = str_b
    /\ Len(split(str_a)) = 2
    /\ split(str_a)[1] # split(str_a)[2]
    /\ words_count.correct = 2

\* the length of the list without its trailing run of lines tagged t
RECURSIVE keep_len(_, _)
keep_len(list, t) ==
    IF Len(list) > 0 /\ tag_of(last_of(list)) = t
      THEN keep_len(SubSeq(list, 1, Len(list) - 1), t)
    ELSE Len(list)

\* C6: the trim leaves the list as it is when its last line is a match;
\* when its last line is an Insert or a Delete it removes the whole trailing
\* run of lines of that tag and nothing else.
C6_TrimRemovesTrailingRun ==
    Trimmed =>
      LET t == tag_of(last_of(differ_full))
      IN  /\ t = " " => differ_list = differ_full
          /\ t \in {"+", "-"} =>
               /\ differ_list = SubSeq(differ_full, 1, keep_len(differ_full, t))
               /\ count_tags(differ_list, {" "}) = count_tags(differ_full, {" "})

\* a trailing run of two Insert lines was removed after a match and a
\* Delete line, which were kept
C6_Witness ==
    /\ pc = "returned"
    /\ to_be_removed = "+"
    /\ Len(differ_full) - Len(differ_list) = 2
    /\ count_tags(differ_list, {" "}) >= 1
    /\ tag_of(last_of(differ_list)) = "-"

\* C7: before the trim the match and Delete tokens are the prompt tokens and
\* the match and Insert tokens are the transcript tokens; after it the side
\* of the removed tag is a prefix of its text and the other side is whole.
C7_ScriptRebuildsTexts ==
    /\ pc \notin {"lcs", "lcs_raised"} =>
         /\ ref_side(differ_full) = split(str_a)
         /\ hyp_side(differ_full) = split(str_b)
    /\ Trimmed =>
         /\ IsPrefix(ref_side(differ_list), split(str_a))
         /\ IsPrefix(hyp_side(differ_list), split(str_b))
         /\ to_be_removed # "-" => ref_side(differ_list) = split(str_a)
         /\ to_be_removed # "+" => hyp_side(differ_list) = split(str_b)

\* a replaced token, a match and a trimmed Delete tail: the prompt side is
\* a strict prefix, the transcript side is whole
C7_Witness ==
    /\ pc = "returned"
    /\ to_be_removed = "-"
    /\ Len(ref_side(differ_list)) < Len(split(str_a))
    /\ count_tags(differ_list, {"+"}) >= 1
    /\ count_tags(differ_list, {" "}) >= 1

\* one text is empty and the other is made of tokens none of which is empty
OneSideEmpty ==
    \/ str_a = <<>> /\ AllNonEmpty(split(str_b))
    \/ str_b = <<>> /\ AllNonEmpty(split(str_a))

\* C8 as stated: against an empty text every token of the other text is
\* counted as added (empty prompt) or removed (empty transcript), but for
\* those of the last two positions, and nothing is replaced.
C8_EmptySideAllSingletons ==
    (pc = "done" /\ OneSideEmpty) =>
      /\ words_count.replaced = 0
      /\ str_a = <<>> => words_count.added >= Len(split(str_b)) - 2
      /\ str_b = <<>> => words_count.removed >= Len(split(str_a)) - 2

\* C8 as amended: against an empty text the trim leaves one line, the
\* boundary rule drops it, and the four counts are 0.
C8_EmptySideCountsNothing ==
    (Counting /\ OneSideEmpty) =>
      /\ pc # "count_raised"
      /\ NLines = 1
      /\ correct = 0 /\ added = 0 /\ removed = 0
      /\ errors_dict = [prompt |-> <<>>, transcript |-> <<>>]
      /\ pc = "done" => words_count = no_counts

\* an empty prompt against three words, and an empty transcript likewise
C8_Witness ==
    /\ pc = "done"
    /\ OneSideEmpty
    /\ Len(split(str_a)) + Len(split(str_b)) >= 4

\* C9: longest_common_subsequence does not raise and returns a list that is
\* not empty: while it trims, the list holds a line whose tag is not the
\* trimmed one.
C9_TrimNeverEmpties ==
    /\ pc # "lcs_raised"
    /\ pc = "trim" =>
         \E k \in 1 .. Len(differ_list) : tag_of(differ_list[k]) # to_be_removed
    /\ Trimmed => Len(differ_list) >= 1

\* the trim stopped at the one line it could not remove
C9_Witness ==
    /\ pc = "returned"
    /\ Len(differ_list) = 1
    /\ Len(differ_full) >= 3

\* C10: every preprocess_data call advances the step iterator len(_steps)
\* times without exhausting it, the k-th name it reports is the name of the
\* k-th step executed, and compute_numerical_features is reported last.
C10_ReportedIsExecuted ==
    /\ spc # "raised"
    /\ Len(reported) = Len(executed)
    /\ \A k \in 1 .. Len(reported) : reported[k] = executed[k]
    /\ (spc = "idle" /\ calls > 0) =>
         /\ steps_pos = Len(steps)
         /\ reported[Len(reported)] = "compute_numerical_features"

=============================================================================
